---------------------------- MODULE Spec2Model ----------------------------
(***************************************************************************)
(* Model of src/app.py: the start-up of the module (credential check, app, *)
(* CORS, client, routes), the liveness route home() and the prediction     *)
(* route gemini_predict(), handled by several requests at once.  Each      *)
(* handler is followed statement by statement through its own program      *)
(* counter pc[r].                                                          *)
(***************************************************************************)
EXTENDS Integers, Sequences, FiniteSets, TLC

\* ------------------------------------------------------------------ bounds
\* number of request slots that can be in flight at once
NumReqs == 2
\* a vendor text is the concatenation of at most MaxFrags fragments
MaxFrags == 3

Reqs == 1..NumReqs

\* ----------------------------------------------------------- Python values
None == "<None>"

\* Python truthiness of an optional string: `not v`
Falsy(v) == v = None \/ v = ""

\* Python `needle in haystack` for two strings
Contains(haystack, needle) ==
    \E i \in 0..(Len(haystack) - Len(needle)) :
        SubSeq(haystack, i + 1, i + Len(needle)) = needle

\* dict.get(key) of a mapping with string keys
Get(d, key) == IF key \in DOMAIN d THEN d[key] ELSE None

EmptyDict == [k \in {} |-> ""]

\* ------------------------------------------------------------ input spaces
EnvKeys == {None, "", "AIza-key"}

Methods == {"POST", "OPTIONS"}

ImageBytes == {"PNG-bytes", "junk-bytes"}

\* request.files: with or without the 'image' field
FilesChoices == {EmptyDict} \cup {[k \in {"image"} |-> b] : b \in ImageBytes}

\* request.form: without 'prompt', with an empty one, with a text
FormChoices == {EmptyDict} \cup {[k \in {"prompt"} |-> p] : p \in {"", "Classify this item"}}

\* PIL.Image.open succeeds on these bytes
Decodable(b) == b = "PNG-bytes"

Frags == {"Recyclable", "Compost", "Non-", "recyclable", "Recycl", "able", " compost "}

RECURSIVE Texts(_)
Texts(n) == IF n = 0 THEN {""}
            ELSE LET T == Texts(n - 1) IN T \cup {t \o f : t \in T, f \in Frags}

\* every text the vendor may return in the single-request specification
AllTexts == Texts(MaxFrags)

\* the texts the vendor returns in the concurrent specification
SmallTexts == {"Recyclable", "Compost", "Landfill"}

ApiMessages == {"quota exceeded"}

\* -------------------------------------------------------------- responses
NoResp == [status |-> 0, body |-> ""]

JsonResp(code, obj) == [status |-> code, body |-> obj]

HomeBody == [status |-> "ok", service |-> "Gemini NeuroSort API"]

NoImageMsg == "No image file provided"
NoPromptMsg == "No text prompt provided"
GenericMsg == "Internal AI prediction service failed."
ApiFailMsg(m) == "Gemini API service failed: " \o m

NoExc == [type |-> "none", message |-> "", src |-> ""]
NoReply == [returned |-> FALSE, text |-> None]

VARIABLES
    environ,         \* value of GEMINI_API_KEY in the environment
    API_KEY,         \* module global API_KEY
    boot,            \* position of the module's start-up code
    app,             \* the Flask app exists
    client,          \* the genai client exists
    routes,          \* registered URL rules
    bootLog,         \* log entries of the start-up code
    apiUp,           \* the external inference service is reachable
    homePc,          \* position of a GET / request
    homeResp,        \* its response
    pc,              \* position of each prediction request
    method,          \* request.method
    files,           \* request.files
    form,            \* request.form
    image_data,      \* bytes read from the uploaded file
    image,           \* the decoded image
    model_response,  \* what generate_content returned
    exc,             \* the exception being handled
    category,        \* local variable category
    log,             \* log entries written while handling the request
    resp,            \* the response sent
    calls            \* outbound calls made while handling the request

bootVars == <<environ, API_KEY, boot, app, client, routes, bootLog>>
homeVars == <<homePc, homeResp>>
inputVars == <<method, files, form>>
workVars == <<image_data, image, model_response, exc, category>>
reqVars == <<pc, inputVars, workVars, log, resp, calls>>
vars == <<bootVars, apiUp, homeVars, reqVars>>

Entry(level, msg) == [level |-> level, msg |-> msg]

HasLevel(entries, level) == \E i \in 1..Len(entries) : entries[i].level = level

Init ==
    /\ environ \in EnvKeys
    /\ API_KEY = None
    /\ boot = "getenv"
    /\ app = FALSE
    /\ client = FALSE
    /\ routes = {}
    /\ bootLog = <<>>
    /\ apiUp = TRUE
    /\ homePc = "idle"
    /\ homeResp = NoResp
    /\ pc = [r \in Reqs |-> "idle"]
    /\ method = [r \in Reqs |-> None]
    /\ files = [r \in Reqs |-> EmptyDict]
    /\ form = [r \in Reqs |-> EmptyDict]
    /\ image_data = [r \in Reqs |-> None]
    /\ image = [r \in Reqs |-> None]
    /\ model_response = [r \in Reqs |-> NoReply]
    /\ exc = [r \in Reqs |-> NoExc]
    /\ category = [r \in Reqs |-> None]
    /\ log = [r \in Reqs |-> <<>>]
    /\ resp = [r \in Reqs |-> NoResp]
    /\ calls = [r \in Reqs |-> 0]

\* ---------------------------------------------------------------- start-up
\* API_KEY = os.getenv("GEMINI_API_KEY")
Getenv ==
    /\ boot = "getenv"
    /\ API_KEY' = environ
    /\ boot' = "check_key"
    /\ UNCHANGED <<environ, app, client, routes, bootLog, apiUp, homeVars, reqVars>>

\* a start-up that reports the missing key and carries on
CheckKeyWarnOnly ==
    /\ boot = "check_key"
    /\ bootLog' = IF Falsy(API_KEY)
                  THEN Append(bootLog, Entry("ERROR", "GEMINI_API_KEY is not set"))
                  ELSE bootLog
    /\ boot' = "flask"
    /\ UNCHANGED <<environ, API_KEY, app, client, routes, apiUp, homeVars, reqVars>>

\* if not API_KEY: logger.error(...)
CheckKey ==
    /\ boot = "check_key"
    /\ IF Falsy(API_KEY)
       THEN /\ bootLog' = Append(bootLog, Entry("ERROR", "GEMINI_API_KEY is not set"))
            /\ boot' = "raise"
       ELSE /\ boot' = "flask"
            /\ UNCHANGED bootLog
    /\ UNCHANGED <<environ, API_KEY, app, client, routes, apiUp, homeVars, reqVars>>

\* raise RuntimeError("GEMINI_API_KEY is not set"): the import of the module fails
RaiseRuntimeError ==
    /\ boot = "raise"
    /\ boot' = "aborted"
    /\ UNCHANGED <<environ, API_KEY, app, client, routes, bootLog, apiUp, homeVars, reqVars>>

\* app = Flask(__name__); CORS(app, ...)
CreateApp ==
    /\ boot = "flask"
    /\ app' = TRUE
    /\ boot' = "client"
    /\ UNCHANGED <<environ, API_KEY, client, routes, bootLog, apiUp, homeVars, reqVars>>

\* client = genai.Client()
CreateClient ==
    /\ boot = "client"
    /\ client' = TRUE
    /\ boot' = "routes"
    /\ UNCHANGED <<environ, API_KEY, app, routes, bootLog, apiUp, homeVars, reqVars>>

\* @app.route("/") and @app.route('/api/gemini-predict', ...)
RegisterRoutes ==
    /\ boot = "routes"
    /\ routes' = {"/", "/api/gemini-predict"}
    /\ boot' = "main"
    /\ UNCHANGED <<environ, API_KEY, app, client, bootLog, apiUp, homeVars, reqVars>>

\* logger.info("Starting Waitress server ..."); serve(app, ...)
Serve ==
    /\ boot = "main"
    /\ bootLog' = Append(bootLog, Entry("INFO", "Starting Waitress server"))
    /\ boot' = "serving"
    /\ UNCHANGED <<environ, API_KEY, app, client, routes, apiUp, homeVars, reqVars>>

Startup ==
    \/ Getenv
    \/ CheckKey
    \/ RaiseRuntimeError
    \/ CreateApp
    \/ CreateClient
    \/ RegisterRoutes
    \/ Serve

\* ------------------------------------------------- the external service
\* the vendor's service goes down or comes back
ApiFlip ==
    /\ apiUp' = ~apiUp
    /\ UNCHANGED <<bootVars, homeVars, reqVars>>

\* ------------------------------------------------------------------ GET /
\* the handler is a single statement: homePc is "idle" or "done"
\* a status route that asks the vendor first
HomeProbe ==
    /\ boot = "serving"
    /\ "/" \in routes
    /\ homePc = "idle"
    /\ homeResp' = IF apiUp THEN JsonResp(200, HomeBody)
                   ELSE JsonResp(503, [status |-> "down", service |-> "Gemini NeuroSort API"])
    /\ homePc' = "done"
    /\ UNCHANGED <<bootVars, apiUp, reqVars>>

\* a GET / reaches the route:
\* return jsonify({"status": "ok", "service": "Gemini NeuroSort API"})
Home ==
    /\ boot = "serving"
    /\ "/" \in routes
    /\ homePc = "idle"
    /\ homeResp' = JsonResp(200, HomeBody)
    /\ homePc' = "done"
    /\ UNCHANGED <<bootVars, apiUp, reqVars>>

\* the response has been sent
HomeClose ==
    /\ homePc = "done"
    /\ homePc' = "idle"
    /\ homeResp' = NoResp
    /\ UNCHANGED <<bootVars, apiUp, reqVars>>

\* ------------------------------------------------- POST /api/gemini-predict
Set(f, r, v) == [f EXCEPT ![r] = v]

Goto(r, label) == pc' = Set(pc, r, label)

Logged(r, level, msg) == log' = Set(log, r, Append(log[r], Entry(level, msg)))

Respond(r, response) ==
    /\ resp' = Set(resp, r, response)
    /\ Goto(r, "done")

Raise(r, type, message, src) ==
    exc' = Set(exc, r, [type |-> type, message |-> message, src |-> src])

\* prompt = request.form.get('prompt')
Prompt(r) == Get(form[r], "prompt")

\* a request reaches the route: a POST with any multipart form, or a CORS
\* preflight, which carries no body
Arrive(r) ==
    /\ boot = "serving"
    /\ "/api/gemini-predict" \in routes
    /\ pc[r] = "idle"
    /\ \E m \in Methods, fl \in FilesChoices, fm \in FormChoices :
        /\ m = "OPTIONS" => (fl = EmptyDict /\ fm = EmptyDict)
        /\ method' = Set(method, r, m)
        /\ files' = Set(files, r, fl)
        /\ form' = Set(form, r, fm)
    /\ Goto(r, "method")
    /\ UNCHANGED <<bootVars, apiUp, homeVars, workVars, log, resp, calls>>

\* if request.method == 'OPTIONS': return ('', 204)
CheckMethod(r) ==
    /\ pc[r] = "method"
    /\ IF method[r] = "OPTIONS"
       THEN Respond(r, [status |-> 204, body |-> ""])
       ELSE Goto(r, "check_image") /\ UNCHANGED resp
    /\ UNCHANGED <<bootVars, apiUp, homeVars, inputVars, workVars, log, calls>>

\* a validation that looks at the prompt before the image
CheckImagePromptFirst(r) ==
    /\ pc[r] = "check_image"
    /\ IF Falsy(Prompt(r))
       THEN Respond(r, JsonResp(400, [error |-> NoPromptMsg]))
       ELSE IF "image" \notin DOMAIN files[r]
       THEN Respond(r, JsonResp(400, [error |-> NoImageMsg]))
       ELSE Goto(r, "check_prompt") /\ UNCHANGED resp
    /\ UNCHANGED <<bootVars, apiUp, homeVars, inputVars, workVars, log, calls>>

\* if 'image' not in request.files: return jsonify({...}), 400
CheckImage(r) ==
    /\ pc[r] = "check_image"
    /\ IF "image" \notin DOMAIN files[r]
       THEN Respond(r, JsonResp(400, [error |-> NoImageMsg]))
       ELSE Goto(r, "check_prompt") /\ UNCHANGED resp
    /\ UNCHANGED <<bootVars, apiUp, homeVars, inputVars, workVars, log, calls>>

\* a prompt check that rejects only an absent prompt (`prompt is None`)
CheckPromptNoneOnly(r) ==
    /\ pc[r] = "check_prompt"
    /\ IF Prompt(r) = None
       THEN Respond(r, JsonResp(400, [error |-> NoPromptMsg]))
       ELSE Goto(r, "read") /\ UNCHANGED resp
    /\ UNCHANGED <<bootVars, apiUp, homeVars, inputVars, workVars, log, calls>>

\* if not prompt: return jsonify({...}), 400
CheckPrompt(r) ==
    /\ pc[r] = "check_prompt"
    /\ IF Falsy(Prompt(r))
       THEN Respond(r, JsonResp(400, [error |-> NoPromptMsg]))
       ELSE Goto(r, "read") /\ UNCHANGED resp
    /\ UNCHANGED <<bootVars, apiUp, homeVars, inputVars, workVars, log, calls>>

\* image_data = file.read()
ReadFile(r) ==
    /\ pc[r] = "read"
    /\ image_data' = Set(image_data, r, files[r]["image"])
    /\ Goto(r, "open")
    /\ UNCHANGED <<bootVars, apiUp, homeVars, inputVars, image, model_response, exc,
                   category, log, resp, calls>>

\* an Image.open that never fails on the bytes it is given
ImageOpenLazy(r) ==
    /\ pc[r] = "open"
    /\ image' = Set(image, r, "Image(" \o image_data[r] \o ")")
    /\ Goto(r, "log_received")
    /\ UNCHANGED <<bootVars, apiUp, homeVars, inputVars, image_data, model_response, exc,
                   category, log, resp, calls>>

\* image = Image.open(BytesIO(image_data)); raises on bytes that are no image
ImageOpen(r) ==
    /\ pc[r] = "open"
    /\ IF Decodable(image_data[r])
       THEN /\ image' = Set(image, r, "Image(" \o image_data[r] \o ")")
            /\ Goto(r, "log_received")
            /\ UNCHANGED exc
       ELSE /\ Raise(r, "UnidentifiedImageError", "cannot identify image file", "Image.open")
            /\ Goto(r, "except_exception")
            /\ UNCHANGED image
    /\ UNCHANGED <<bootVars, apiUp, homeVars, inputVars, image_data, model_response,
                   category, log, resp, calls>>

\* logger.info(f"Received image and prompt: {prompt}. Sending request to Gemini...")
LogReceived(r) ==
    /\ pc[r] = "log_received"
    /\ Logged(r, "INFO", "Received image and prompt: " \o Prompt(r))
    /\ Goto(r, "call")
    /\ UNCHANGED <<bootVars, apiUp, homeVars, inputVars, workVars, resp, calls>>

\* a call that is tried once more after a failure
GenerateContentRetry(r, texts) ==
    /\ pc[r] = "call"
    /\ client
    /\ calls' = Set(calls, r, calls[r] + 1)
    /\ \/ /\ apiUp
          /\ \E t \in texts \cup {None} :
                model_response' = Set(model_response, r, [returned |-> TRUE, text |-> t])
          /\ Goto(r, "scan")
          /\ UNCHANGED exc
       \/ /\ \E m \in ApiMessages :
                IF calls[r] = 0
                THEN Goto(r, "call") /\ UNCHANGED exc
                ELSE Raise(r, "APIError", m, "generate_content") /\ Goto(r, "except_api")
          /\ UNCHANGED model_response
       \/ /\ IF calls[r] = 0
             THEN Goto(r, "call") /\ UNCHANGED exc
             ELSE /\ Raise(r, "ConnectError", "connection failed", "generate_content")
                  /\ Goto(r, "except_exception")
          /\ UNCHANGED model_response
    /\ UNCHANGED <<bootVars, apiUp, homeVars, inputVars, image_data, image, category,
                   log, resp>>

\* model_response = client.models.generate_content(model=..., contents=[prompt, image])
\* returns a response (whose text may be None) while the service is up, or raises
\* APIError, or raises something else
GenerateContent(r, texts) ==
    /\ pc[r] = "call"
    /\ client
    /\ calls' = Set(calls, r, calls[r] + 1)
    /\ \/ /\ apiUp
          /\ \E t \in texts \cup {None} :
                model_response' = Set(model_response, r, [returned |-> TRUE, text |-> t])
          /\ Goto(r, "scan")
          /\ UNCHANGED exc
       \/ /\ \E m \in ApiMessages : Raise(r, "APIError", m, "generate_content")
          /\ Goto(r, "except_api")
          /\ UNCHANGED model_response
       \/ /\ Raise(r, "ConnectError", "connection failed", "generate_content")
          /\ Goto(r, "except_exception")
          /\ UNCHANGED model_response
    /\ UNCHANGED <<bootVars, apiUp, homeVars, inputVars, image_data, image, category,
                   log, resp>>

\* the keyword scan with the two tests in the other order
CategoryCompostFirst(response_text) ==
    IF Contains(response_text, "Compost") THEN "Compost"
    ELSE IF Contains(response_text, "Recyclable") THEN "Recyclable"
    ELSE "Non-Recyclable"

\* if "Recyclable" in response_text: ... elif "Compost" in response_text: ... else: ...
Category(response_text) ==
    IF Contains(response_text, "Recyclable") THEN "Recyclable"
    ELSE IF Contains(response_text, "Compost") THEN "Compost"
    ELSE "Non-Recyclable"

\* response_text = model_response.text, then the scan; `in` raises TypeError on None
Scan(r) ==
    /\ pc[r] = "scan"
    /\ IF model_response[r].text = None
       THEN /\ Raise(r, "TypeError", "argument of type 'NoneType' is not iterable", "scan")
            /\ Goto(r, "except_exception")
            /\ UNCHANGED category
       ELSE /\ category' = Set(category, r, Category(model_response[r].text))
            /\ Goto(r, "log_complete")
            /\ UNCHANGED exc
    /\ UNCHANGED <<bootVars, apiUp, homeVars, inputVars, image_data, image, model_response,
                   log, resp, calls>>

\* logger.info(f"Prediction complete. Category: {category}. ...")
LogComplete(r) ==
    /\ pc[r] = "log_complete"
    /\ Logged(r, "INFO", "Prediction complete. Category: " \o category[r])
    /\ Goto(r, "return_200")
    /\ UNCHANGED <<bootVars, apiUp, homeVars, inputVars, workVars, resp, calls>>

\* a handler that keeps the category in a module-level variable: the response
\* carries whichever request's category was stored last
Return200Shared(r) ==
    /\ pc[r] = "return_200"
    /\ \E q \in Reqs :
        /\ category[q] # None
        /\ Respond(r, JsonResp(200, [success |-> TRUE,
                                     prediction |-> model_response[r].text,
                                     category |-> category[q]]))
    /\ UNCHANGED <<bootVars, apiUp, homeVars, inputVars, workVars, log, calls>>

\* return jsonify({"success": True, "prediction": response_text, "category": category})
Return200(r) ==
    /\ pc[r] = "return_200"
    /\ Respond(r, JsonResp(200, [success |-> TRUE,
                                 prediction |-> model_response[r].text,
                                 category |-> category[r]]))
    /\ UNCHANGED <<bootVars, apiUp, homeVars, inputVars, workVars, log, calls>>

\* except APIError as e: logger.error(f"Gemini API Error: {e}")
LogApiError(r) ==
    /\ pc[r] = "except_api"
    /\ Logged(r, "ERROR", "Gemini API Error: " \o exc[r].message)
    /\ Goto(r, "return_api_500")
    /\ UNCHANGED <<bootVars, apiUp, homeVars, inputVars, workVars, resp, calls>>

\* an error return that leaves out the status code
ReturnApiNoStatus(r) ==
    /\ pc[r] = "return_api_500"
    /\ Respond(r, JsonResp(200, [error |-> ApiFailMsg(exc[r].message)]))
    /\ UNCHANGED <<bootVars, apiUp, homeVars, inputVars, workVars, log, calls>>

\* return jsonify({"error": f"Gemini API service failed: {e.message}"}), 500
ReturnApi500(r) ==
    /\ pc[r] = "return_api_500"
    /\ Respond(r, JsonResp(500, [error |-> ApiFailMsg(exc[r].message)]))
    /\ UNCHANGED <<bootVars, apiUp, homeVars, inputVars, workVars, log, calls>>

\* an except block that answers without logging
LogInternalErrorSkipped(r) ==
    /\ pc[r] = "except_exception"
    /\ Goto(r, "return_500")
    /\ UNCHANGED <<bootVars, apiUp, homeVars, inputVars, workVars, log, resp, calls>>

\* except Exception as e: logger.error(f"Internal Server Error: {e}")
LogInternalError(r) ==
    /\ pc[r] = "except_exception"
    /\ Logged(r, "ERROR", "Internal Server Error: " \o exc[r].message)
    /\ Goto(r, "return_500")
    /\ UNCHANGED <<bootVars, apiUp, homeVars, inputVars, workVars, resp, calls>>

\* return jsonify({"error": "Internal AI prediction service failed."}), 500
Return500(r) ==
    /\ pc[r] = "return_500"
    /\ Respond(r, JsonResp(500, [error |-> GenericMsg]))
    /\ UNCHANGED <<bootVars, apiUp, homeVars, inputVars, workVars, log, calls>>

\* the response has been sent; the request's locals are gone
Close(r) ==
    /\ pc[r] = "done"
    /\ Goto(r, "idle")
    /\ method' = Set(method, r, None)
    /\ files' = Set(files, r, EmptyDict)
    /\ form' = Set(form, r, EmptyDict)
    /\ image_data' = Set(image_data, r, None)
    /\ image' = Set(image, r, None)
    /\ model_response' = Set(model_response, r, NoReply)
    /\ exc' = Set(exc, r, NoExc)
    /\ category' = Set(category, r, None)
    /\ log' = Set(log, r, <<>>)
    /\ resp' = Set(resp, r, NoResp)
    /\ calls' = Set(calls, r, 0)
    /\ UNCHANGED <<bootVars, apiUp, homeVars>>

\* one step of the handler of request r
gemini_predict(r, texts) ==
    \/ CheckMethod(r)
    \/ CheckImage(r)
    \/ CheckPrompt(r)
    \/ ReadFile(r)
    \/ ImageOpen(r)
    \/ LogReceived(r)
    \/ GenerateContent(r, texts)
    \/ Scan(r)
    \/ LogComplete(r)
    \/ Return200(r)
    \/ LogApiError(r)
    \/ ReturnApi500(r)
    \/ LogInternalError(r)
    \/ Return500(r)

\* ----------------------------------------------------------- specifications
\* several requests in flight at once
Next ==
    \/ Startup
    \/ ApiFlip
    \/ Home
    \/ HomeClose
    \/ \E r \in Reqs : Arrive(r) \/ gemini_predict(r, SmallTexts) \/ Close(r)

Spec == Init /\ [][Next]_vars

\* one request at a time, the vendor's text drawn from AllTexts
NextSeq ==
    \/ Startup
    \/ ApiFlip
    \/ Arrive(1)
    \/ gemini_predict(1, AllTexts)
    \/ Close(1)

SpecSeq == Init /\ [][NextSeq]_vars

\* ------------------------------------------------------------ properties
Done(r) == pc[r] = "done"

HasImage(r) == "image" \in DOMAIN files[r]

PromptMissing(r) == "prompt" \notin DOMAIN form[r] \/ form[r]["prompt"] = ""

\* the request passed both validations and its bytes are an image
Valid(r) ==
    /\ method[r] = "POST"
    /\ HasImage(r)
    /\ ~PromptMissing(r)
    /\ files[r]["image"] = "PNG-bytes"

\* kw is one of the substrings of text
Occurs(text, kw) ==
    \E i \in 1..Len(text), j \in 1..Len(text) : SubSeq(text, i, j) = kw

Labels == {"Recyclable", "Compost", "Non-Recyclable"}

\* C1: a POST without the `image` file field is answered 400 with the error
\* "No image file provided", whatever its prompt is (absent, empty or a text).
C1_NoImage400 ==
    \A r \in Reqs :
        (Done(r) /\ method[r] = "POST" /\ ~HasImage(r)) =>
            /\ resp[r].status = 400
            /\ resp[r].body = [error |-> "No image file provided"]

C1_Witness ==
    \E r \in Reqs :
        /\ Done(r) /\ method[r] = "POST" /\ ~HasImage(r)
        /\ "prompt" \notin DOMAIN form[r]
        /\ resp[r].status = 400

\* C2: a POST with an `image` field whose prompt is absent or empty is answered
\* 400 with the error "No text prompt provided", and the uploaded bytes have
\* been neither read nor decoded.
C2_NoPrompt400 ==
    \A r \in Reqs :
        (Done(r) /\ method[r] = "POST" /\ HasImage(r) /\ PromptMissing(r)) =>
            /\ resp[r].status = 400
            /\ resp[r].body = [error |-> "No text prompt provided"]
            /\ image_data[r] = None
            /\ image[r] = None

C2_Witness ==
    \E r \in Reqs :
        /\ Done(r) /\ method[r] = "POST" /\ HasImage(r)
        /\ "prompt" \in DOMAIN form[r] /\ form[r]["prompt"] = ""
        /\ resp[r].status = 400

\* C3: when the vendor returned a text, the response is 200 with success = TRUE,
\* prediction = that text, and category = "Recyclable" if the text has the
\* substring "Recyclable", else "Compost" if it has "Compost", else
\* "Non-Recyclable"; the category is one of the three labels and is
\* "Non-Recyclable" exactly when neither keyword occurs.
C3_CategoryScan ==
    \A r \in Reqs :
        (Done(r) /\ model_response[r].returned /\ model_response[r].text # None) =>
            LET text == model_response[r].text
                hasR == Occurs(text, "Recyclable")
                hasC == Occurs(text, "Compost")
            IN  /\ resp[r].status = 200
                /\ DOMAIN resp[r].body = {"success", "prediction", "category"}
                /\ resp[r].body["success"] = TRUE
                /\ resp[r].body["prediction"] = text
                /\ resp[r].body["category"] \in Labels
                /\ hasR => resp[r].body["category"] = "Recyclable"
                /\ (~hasR /\ hasC) => resp[r].body["category"] = "Compost"
                /\ (resp[r].body["category"] = "Non-Recyclable") <=> (~hasR /\ ~hasC)

C3_Witness ==
    \E r \in Reqs :
        /\ Done(r)
        /\ model_response[r].text = "CompostNon-Recyclable"
        /\ resp[r].status = 200
        /\ resp[r].body["category"] = "Recyclable"

\* C4: when the outbound call raised (APIError or anything else), the request
\* ends with 500, an ERROR entry is in its log, and the body is an object with
\* the single field `error`: the vendor's message for APIError, the generic
\* message otherwise.  A finished request always has a response.
C4_ApiFailure500 ==
    \A r \in Reqs :
        /\ Done(r) => resp[r].status # 0
        /\ (Done(r) /\ exc[r].src = "generate_content") =>
            /\ resp[r].status = 500
            /\ HasLevel(log[r], "ERROR")
            /\ DOMAIN resp[r].body = {"error"}
            /\ resp[r].body["error"] =
                   IF exc[r].type = "APIError"
                   THEN "Gemini API service failed: " \o exc[r].message
                   ELSE "Internal AI prediction service failed."

C4_Witness ==
    \E r \in Reqs :
        /\ Done(r)
        /\ exc[r].src = "generate_content" /\ exc[r].type = "APIError"
        /\ resp[r].status = 500

\* C5 as stated: every finished POST to the prediction endpoint has made
\* exactly one outbound call.
C5_ExactlyOneCall ==
    \A r \in Reqs : (Done(r) /\ method[r] = "POST") => calls[r] = 1

\* C5 amended: a request makes at most one outbound call, and a finished
\* request has made exactly one if and only if it passed the image check, the
\* prompt check and the decode; a failed call is not repeated.
C5_AtMostOneCall ==
    \A r \in Reqs :
        /\ calls[r] <= 1
        /\ Done(r) => ((calls[r] = 1) <=> Valid(r))

C5_Witness ==
    \E r \in Reqs :
        /\ Done(r)
        /\ exc[r].src = "generate_content"
        /\ calls[r] = 1

\* C6 as stated: every request answered 400 or 500 has a log entry.
C6_EveryFailureLogged ==
    \A r \in Reqs :
        (Done(r) /\ resp[r].status \in {400, 500}) => log[r] # <<>>

\* C6 amended: every 500 outcome has its ERROR entry in the log before the
\* response is sent; the two 400 outcomes are sent without any log entry.
C6_ServerFailuresLogged ==
    \A r \in Reqs :
        /\ (pc[r] \in {"return_500", "return_api_500"} \/ (Done(r) /\ resp[r].status = 500)) =>
              (log[r] # <<>> /\ log[r][Len(log[r])].level = "ERROR")
        /\ (Done(r) /\ resp[r].status = 400) => log[r] = <<>>

C6_Witness ==
    \E r \in Reqs :
        /\ pc[r] = "return_500"
        /\ exc[r].src = "Image.open"
        /\ resp[r].status = 0
        /\ HasLevel(log[r], "ERROR")

\* C7: GET / is answered 200 with the fixed body, whether or not the external
\* service is up and whatever the prediction requests are doing, and serving it
\* makes no outbound call and touches no prediction request.
C7_HomeFixed ==
    /\ [](homePc = "done" =>
            /\ homeResp.status = 200
            /\ homeResp.body = [status |-> "ok", service |-> "Gemini NeuroSort API"])
    /\ [][(homePc = "idle" /\ homePc' = "done") => UNCHANGED <<calls, reqVars, bootVars>>]_vars

C7_Witness ==
    /\ homePc = "done"
    /\ homeResp.status = 200
    /\ ~apiUp
    /\ \E r \in Reqs : pc[r] = "except_api"

\* C8: the credential is read once at start-up; when it is unset or empty an
\* error is logged and start-up aborts before the app, the client and the
\* routes exist, so no request is ever handled without a credential.
C8_KeyRequired ==
    /\ boot # "getenv" => API_KEY = environ
    /\ environ \in {None, ""} =>
          /\ ~app /\ ~client /\ routes = {}
          /\ boot \in {"getenv", "check_key", "raise", "aborted"}
          /\ homePc = "idle"
          /\ \A r \in Reqs : pc[r] = "idle"
    /\ boot \in {"raise", "aborted"} =>
          /\ environ \in {None, ""}
          /\ HasLevel(bootLog, "ERROR")

C8_Witness ==
    /\ boot = "aborted"
    /\ environ = ""
    /\ HasLevel(bootLog, "ERROR")
    /\ ~app /\ ~client

\* the response that the request's own inputs and the vendor's reply to its own
\* call determine
Outcome(r) ==
    IF method[r] = "OPTIONS" THEN [status |-> 204, body |-> ""]
    ELSE IF ~HasImage(r) THEN [status |-> 400, body |-> [error |-> "No image file provided"]]
    ELSE IF PromptMissing(r) THEN [status |-> 400, body |-> [error |-> "No text prompt provided"]]
    ELSE IF files[r]["image"] # "PNG-bytes"
         THEN [status |-> 500, body |-> [error |-> "Internal AI prediction service failed."]]
    ELSE IF exc[r].type = "APIError"
         THEN [status |-> 500,
               body |-> [error |-> "Gemini API service failed: " \o exc[r].message]]
    ELSE IF exc[r].type # "none" \/ model_response[r].text = None
         THEN [status |-> 500, body |-> [error |-> "Internal AI prediction service failed."]]
    ELSE [status |-> 200,
          body |-> [success |-> TRUE,
                    prediction |-> model_response[r].text,
                    category |-> IF Occurs(model_response[r].text, "Recyclable")
                                 THEN "Recyclable"
                                 ELSE IF Occurs(model_response[r].text, "Compost")
                                 THEN "Compost"
                                 ELSE "Non-Recyclable"]]

\* everything the handler of request r holds
Own(r) == <<pc[r], method[r], files[r], form[r], image_data[r], image[r],
            model_response[r], exc[r], category[r], log[r], resp[r], calls[r]>>

\* C9: under every interleaving, the response of a request is the one its own
\* image, prompt and vendor reply determine; a step of one handler changes
\* nothing that belongs to another request, and no handler step changes the
\* process-wide state (credential, app, client, routes).
C9_Independent ==
    /\ [](\A r \in Reqs : Done(r) =>
            /\ resp[r].status = Outcome(r).status
            /\ resp[r].body = Outcome(r).body)
    /\ [][\A r \in Reqs : pc'[r] = pc[r] => Own(r)' = Own(r)]_vars
    /\ [][boot = "serving" => UNCHANGED <<API_KEY, app, client, routes>>]_vars

C9_Witness ==
    \E r \in Reqs, q \in Reqs :
        /\ Done(r) /\ Done(q)
        /\ resp[r].status = 200 /\ resp[q].status = 200
        /\ resp[r].body["category"] = "Recyclable"
        /\ resp[q].body["category"] = "Compost"

\* C10: an outbound call has been made only by a POST that passed the image
\* check, the prompt check and the decode; an OPTIONS request is answered 204
\* with an empty body (even without image and prompt), a request answered 400
\* and a request whose bytes cannot be decoded (answered 500 with the generic
\* message) have made no outbound call.
C10_CallOnlyAfterChecks ==
    \A r \in Reqs :
        /\ calls[r] > 0 => (Valid(r) /\ image[r] # None)
        /\ (Done(r) /\ method[r] = "OPTIONS") =>
              (resp[r].status = 204 /\ resp[r].body = "" /\ calls[r] = 0)
        /\ (Done(r) /\ resp[r].status = 400) => calls[r] = 0
        /\ (Done(r) /\ method[r] = "POST" /\ HasImage(r) /\ ~PromptMissing(r)
                /\ files[r]["image"] # "PNG-bytes") =>
              /\ resp[r].status = 500
              /\ resp[r].body = [error |-> "Internal AI prediction service failed."]
              /\ calls[r] = 0

C10_Witness ==
    \E r \in Reqs :
        /\ Done(r)
        /\ exc[r].src = "Image.open"
        /\ resp[r].status = 500
        /\ calls[r] = 0

=============================================================================
